---- MODULE Spec2Model ----
(***************************************************************************)
(* A model of the prefetching iteration layer of labelbox-python:          *)
(*   - ThreadSafeGen and PrefetchGenerator (src/labelbox/data/generator.py)*)
(*   - BasePaginator and IdentifierPaginator (src/labelbox_dev/pagination.py)*)
(* Spec    is the generator pipeline, SpecPag the paginator.               *)
(***************************************************************************)
EXTENDS Integers, Sequences, FiniteSets, TLC

\* ------------------------------------------------------------------ bounds
MaxItems == 2        \* longest source handed to PrefetchGenerator
MaxExecutors == 2    \* largest num_executors
MaxPrefetch == 2     \* largest prefetch_limit
MaxFailing == 1      \* most source items on which _process fails
MaxIds == 5          \* longest identifier list handed to IdentifierPaginator
MaxPageLimit == 3    \* largest page limit
MaxPageLen == 2      \* most raw records the session returns for one request

\* ------------------------------------------------------------------ state
VARIABLES
    multithread,        \* PrefetchGenerator.multithread
    num_executors,      \* PrefetchGenerator.num_executors
    prefetch_limit,     \* capacity of PrefetchGenerator.queue
    data,               \* the source iterable, as the sequence it produces
    outcome,            \* what happens to each source item: the advance that
                        \* would produce it raises ("srcraise"), or _process
                        \* returns a value, returns None or raises
    cursor,             \* position of the underlying iterable
    lock,               \* ThreadSafeGen.lock: its holder, or NoThread
    pc,                 \* position of each thread that runs fill_queue
    pos,                \* the position a thread read inside next(iterable)
    value,              \* fill_queue's local variable value
    queue,              \* PrefetchGenerator.queue
    completed_threads,  \* PrefetchGenerator.completed_threads
    done,               \* PrefetchGenerator.done
    cpc,                \* position of the consumer inside __next__
    received,           \* values __next__ has returned, in order
    lastResult,         \* how the latest completed __next__ call ended
    firstEnd,           \* how and where the consumer's iteration first ended
    stops,              \* StopIteration results so far: 0, 1, or 2 for "2 or more"
    handed,             \* times ThreadSafeGen.__next__ returned each position
    putLog,             \* every value queue.put has added, in order
    identifiers,        \* IdentifierPaginator.identifiers
    limit,              \* BasePaginator.limit
    params,             \* BasePaginator.params
    identifiers_key,    \* IdentifierPaginator.identifiers_key
    current_idx,        \* IdentifierPaginator._current_idx
    is_last_page,       \* BasePaginator._is_last_page
    entities_from_last_page,  \* BasePaginator._entities_from_last_page
    requests,           \* the get_request calls made so far, in order, each with
                        \* its window and the number of records returned (-1: raised)
    rawTotal,           \* raw records the session has returned so far
    created,            \* entities deserialize_entity has built so far
    yielded,            \* entities the paginator's __next__ has returned
    ppc,                \* "idle", or "recursed" inside `return next(self)`
    plast,              \* how the latest completed paginator call ended
    pstops              \* its StopIteration results: 0, 1, or 2 for "2 or more"

\* The generator's construction parameters; no action changes them.
gcfg == <<multithread, num_executors, prefetch_limit, data, outcome>>

gvars == <<gcfg, cursor, lock, pc, pos, value, queue, completed_threads, done,
           cpc, received, lastResult, firstEnd, stops, handed, putLog>>

\* The paginator's construction parameters; no action changes them.
pcfg == <<identifiers, limit, params, identifiers_key>>

pvars == <<pcfg, current_idx, is_last_page, entities_from_last_page, requests,
           rawTotal, created, yielded, ppc, plast, pstops>>

vars == <<gvars, pvars>>

NoThread == -1
MainThread == 0
Threads == 0 .. MaxExecutors
None == [kind |-> "None"]

\* A value _process returned for source item v.
Processed(v) == [kind |-> "item", val |-> v]

\* The marker fill_queue enqueues when the loop body raised on source item k.
ErrorMarker(cause, k) == [kind |-> "ValueError", cause |-> cause, at |-> k]

IsValueError(x) == x.kind = "ValueError"

\* The threads that run fill_queue: the workers, or the constructing thread.
Fillers == IF multithread THEN 1 .. num_executors ELSE {MainThread}

\* __init__ has returned: every worker was started, or fill_queue() returned.
Constructed ==
    IF multithread
    THEN \A t \in Fillers : pc[t] # "unstarted"
    ELSE pc[MainThread] \in {"done", "failed"}

Min(a, b) == IF a < b THEN a ELSE b

\* ------------------------------------------------- PrefetchGenerator.__init__
OutcomeSets(n) ==
    {o \in [1 .. n -> {"ok", "none", "raise", "srcraise"}] :
        Cardinality({i \in 1 .. n : o[i] # "ok"}) <= MaxFailing}

GenInit ==
    /\ multithread \in BOOLEAN
    /\ num_executors \in 1 .. MaxExecutors
    /\ prefetch_limit \in 1 .. MaxPrefetch
    /\ \E n \in 0 .. MaxItems :
          /\ data = [i \in 1 .. n |-> i]
          /\ outcome \in OutcomeSets(n)
          /\ handed = [i \in 1 .. n |-> 0]
    /\ cursor = 0
    /\ lock = NoThread
    /\ pc = [t \in Threads |->
               IF multithread
               THEN IF t \in 1 .. num_executors THEN "unstarted" ELSE "absent"
               ELSE IF t = MainThread THEN "next" ELSE "absent"]
    /\ pos = [t \in Threads |-> 0]
    /\ value = [t \in Threads |-> None]
    /\ queue = <<>>
    /\ completed_threads = 0
    /\ done = FALSE
    /\ cpc = "idle"
    /\ received = <<>>
    /\ lastResult = "none"
    /\ firstEnd = [how |-> "running", at |-> 0, item |-> 0]
    /\ stops = 0
    /\ putLog = <<>>


\* ------------------------------------------------------- ThreadSafeGen
\* A lock that never makes a caller wait.
LockAvailable_NoLock(t) == TRUE

\* with self.lock: the lock is taken only when no thread holds it.
LockAvailable(t) == lock = NoThread

\* ThreadSafeGen.__next__, entry: take the lock and start next(self.iterable),
\* which reads the iterable's position.
TSGEnter(t) ==
    /\ pc[t] = "next"
    /\ LockAvailable(t)
    /\ lock' = t
    /\ pos' = [pos EXCEPT ![t] = cursor]
    /\ pc' = [pc EXCEPT ![t] = "advancing"]
    /\ UNCHANGED <<gcfg, pvars, putLog, cursor, value, queue, completed_threads, done, cpc,
                   received, lastResult, firstEnd, stops, handed>>

\* A wrapper that reads one element ahead of the one it returns.
Advance_ReadAhead(p) == p + 2

\* next(self.iterable): one call moves the iterable on by one element.
Advance(p) == p + 1

\* A lock that stays taken when the advance ends by an exception.
LockAfterReturn_KeptOnException(t, raised) == IF raised THEN t ELSE NoThread

\* Leaving the with block releases the lock, however the block is left.
LockAfterReturn(t, raised) == NoThread

\* An exception that leaves fill_queue.
OnException_Propagate == "crashed"

\* fill_queue: `except Exception as e` takes every exception of the loop.
OnException == "put_err"

\* ThreadSafeGen.__next__, exit: next(self.iterable) moves the position on and
\* returns the element, or raises: StopIteration ends fill_queue's for loop,
\* any other exception goes to its except clause (the element is consumed);
\* leaving the with block releases the lock.
TSGReturn(t) ==
    /\ pc[t] = "advancing"
    /\ lock' = LockAfterReturn(t, pos[t] >= Len(data)
                                  \/ outcome[pos[t] + 1] = "srcraise")
    /\ IF pos[t] >= Len(data)
       THEN /\ pc' = [pc EXCEPT ![t] = "done"]
            /\ UNCHANGED <<cursor, value, handed>>
       ELSE IF outcome[pos[t] + 1] = "srcraise"
       THEN /\ cursor' = Advance(pos[t])
            /\ value' = [value EXCEPT ![t] =
                            ErrorMarker("source raised", pos[t] + 1)]
            /\ pc' = [pc EXCEPT ![t] = OnException]
            /\ UNCHANGED handed
       ELSE /\ cursor' = Advance(pos[t])
            /\ value' = [value EXCEPT ![t] = data[pos[t] + 1]]
            /\ handed' = [handed EXCEPT ![pos[t] + 1] = @ + 1]
            /\ pc' = [pc EXCEPT ![t] = "process"]
    /\ UNCHANGED <<gcfg, pvars, putLog, pos, queue, completed_threads, done, cpc, received,
                   lastResult, firstEnd, stops>>

\* ------------------------------------------------- PrefetchGenerator, filling
\* __init__ with multithread: the workers are started one after the other.
StartThread(t) ==
    /\ multithread
    /\ t \in Fillers
    /\ pc[t] = "unstarted"
    /\ \A u \in Fillers : u < t => pc[u] # "unstarted"
    /\ pc' = [pc EXCEPT ![t] = "next"]
    /\ UNCHANGED <<gcfg, pvars, putLog, cursor, lock, pos, value, queue, completed_threads, done,
                   cpc, received, lastResult, firstEnd, stops, handed>>

\* A loop body without the `if value is None` check.
AfterProcess_NoneThrough(v) ==
    CASE outcome[v] = "ok" -> Processed(v)
      [] outcome[v] = "none" -> None
      [] outcome[v] = "raise" -> ErrorMarker("process raised", v)

\* What the body of fill_queue's loop holds after _process ran on item v: the
\* processed value, or the marker the except clause builds.
AfterProcess(v) ==
    CASE outcome[v] = "ok" -> Processed(v)
      [] outcome[v] = "none" -> ErrorMarker("Unexpected None", v)
      [] outcome[v] = "raise" -> ErrorMarker("process raised", v)

\* fill_queue: value = self._process(value); a None result raises ValueError,
\* and any exception leaves the loop for the except clause.
Process(t) ==
    /\ pc[t] = "process"
    /\ value' = [value EXCEPT ![t] = AfterProcess(value[t])]
    /\ pc' = [pc EXCEPT ![t] =
                 IF outcome[value[t]] = "ok" THEN "put" ELSE OnException]
    /\ UNCHANGED <<gcfg, pvars, putLog, cursor, lock, pos, queue, completed_threads, done, cpc,
                   received, lastResult, firstEnd, stops, handed>>

\* A put that never blocks.
QueueHasRoom_Always(q) == TRUE

\* Queue.put blocks while the queue holds maxsize values.
QueueHasRoom(q) == Len(q) < prefetch_limit

\* A queue that adds at the head.
QueuePut_AtHead(q, x) == <<x>> \o q

\* Queue.put adds at the tail.
QueuePut(q, x) == Append(q, x)

\* fill_queue: self.queue.put(value), then the next round of the loop.
Put(t) ==
    /\ pc[t] = "put"
    /\ QueueHasRoom(queue)
    /\ putLog' = Append(putLog, value[t])
    /\ queue' = QueuePut(queue, value[t])
    /\ pc' = [pc EXCEPT ![t] = "next"]
    /\ UNCHANGED <<gcfg, pvars, cursor, lock, pos, value, completed_threads, done, cpc,
                   received, lastResult, firstEnd, stops, handed>>

\* fill_queue: the except clause enqueues the marker and fill_queue returns.
PutError(t) ==
    /\ pc[t] = "put_err"
    /\ QueueHasRoom(queue)
    /\ putLog' = Append(putLog, value[t])
    /\ queue' = QueuePut(queue, value[t])
    /\ pc' = [pc EXCEPT ![t] = "failed"]
    /\ UNCHANGED <<gcfg, pvars, cursor, lock, pos, value, completed_threads, done, cpc,
                   received, lastResult, firstEnd, stops, handed>>

\* ---------------------------------------------- PrefetchGenerator, consuming
\* The first end of the consumer's iteration is recorded once.
EndedAs(how, item) ==
    IF firstEnd.how = "running"
    THEN [how |-> how, at |-> Len(received), item |-> item]
    ELSE firstEnd

\* A probe that looks at the done flag only.
Exhausted_DoneOnly == done

\* __next__: `if self.done or self.queue.empty(): raise StopIteration`
Exhausted == done \/ queue = <<>>

\* __next__, the emptiness probe that opens every call.
NextCheck ==
    /\ Constructed
    /\ cpc = "idle"
    /\ IF Exhausted
       THEN /\ lastResult' = "stop"
            /\ stops' = Min(stops + 1, 2)
            /\ firstEnd' = EndedAs("stop", 0)
            /\ cpc' = "idle"
       ELSE /\ cpc' = "get"
            /\ UNCHANGED <<lastResult, stops, firstEnd>>
    /\ UNCHANGED <<gcfg, pvars, putLog, cursor, lock, pc, pos, value, queue, completed_threads,
                   done, received, handed>>

\* __next__ after the probe: self.queue.get() (blocking), the ValueError
\* check, the `while value is None` loop and the return; "join" is the
\* `for thread in self.threads: thread.join()` that precedes StopIteration.
NextGet ==
    /\ cpc \in {"get", "join"}
    /\ IF cpc = "join"
       THEN /\ \A t \in Fillers : pc[t] \in {"done", "failed"}
            /\ lastResult' = "stop"
            /\ stops' = Min(stops + 1, 2)
            /\ firstEnd' = EndedAs("stop", 0)
            /\ cpc' = "idle"
            /\ UNCHANGED <<queue, completed_threads, done, received>>
       ELSE /\ queue # <<>>
            /\ queue' = Tail(queue)
            /\ LET v == Head(queue) IN
               IF IsValueError(v)
               THEN /\ lastResult' = "error"
                    /\ firstEnd' = EndedAs("error", v.at)
                    /\ cpc' = "idle"
                    /\ UNCHANGED <<completed_threads, done, received, stops>>
               ELSE IF v = None
               THEN /\ IF ~multithread
                       THEN /\ cpc' = "get"
                            /\ UNCHANGED <<completed_threads, done>>
                       ELSE /\ completed_threads' = completed_threads + 1
                            /\ done' = (done \/ completed_threads' = num_executors)
                            /\ cpc' = IF completed_threads' = num_executors
                                      THEN "join" ELSE "get"
                    /\ UNCHANGED <<lastResult, firstEnd, received, stops>>
               ELSE /\ received' = Append(received, v)
                    /\ lastResult' = "item"
                    /\ cpc' = "idle"
                    /\ UNCHANGED <<completed_threads, done, firstEnd, stops>>
    /\ UNCHANGED <<gcfg, pvars, putLog, cursor, lock, pc, pos, value, handed>>

\* ------------------------------------------------------------- Paginator
\* The k-th identifier of the list handed to the paginator, as its characters.
Ident(k) == <<"i", ToString(k)>>

\* What the session returns for one record, and the entity built from it.
RawRecord(j) == [id |-> j]

\* A page buffered as the raw records it came as.
deserialize_entity_Raw(raw) == raw

\* BasePaginator.deserialize_entity: self.entity_class(entity)
deserialize_entity(raw) == [entity_class |-> "Entity", json |-> raw]

\* Python's s[a:b] for 0 <= a <= b: the elements at 0-based positions a .. b-1
\* that exist.
Slice(s, a, b) == SubSeq(s, a + 1, Min(b, Len(s)))

\* ','.join(ids)
RECURSIVE Join(_)
Join(ids) ==
    IF ids = <<>> THEN <<>>
    ELSE IF Len(ids) = 1 THEN Head(ids)
    ELSE Head(ids) \o <<",">> \o Join(Tail(ids))

\* params = self.params.copy(); params.update({self.identifiers_key: ids_str})
UpdatedParams(ids_str) ==
    [k \in DOMAIN params \cup {identifiers_key} |->
        IF k = identifiers_key THEN ids_str ELSE params[k]]

\* A window that runs one identifier too far.
EndIdx_OneMore == current_idx + limit + 1

\* get_next_page: end_idx and the window self.identifiers[_current_idx:end_idx]
EndIdx == current_idx + limit

WindowIds == Slice(identifiers, current_idx, EndIdx)

\* An end test that misses the window ending exactly at the end of the list.
ReachedEnd_Strict(idx) == idx > Len(identifiers)

\* get_next_page: `if self._current_idx >= len(self.identifiers)`, evaluated
\* on the advanced index.
ReachedEnd(idx) == idx >= Len(identifiers)

\* An index that is advanced only after the session call has returned.
IdxAfterFetch_RolledBack(raises) ==
    IF raises THEN current_idx ELSE current_idx + limit

\* An index that moves on by the number of identifiers in the window.
IdxAfterFetch_ByWindow(raises) == current_idx + Len(WindowIds)

\* get_next_page: `self._current_idx += self.limit` comes before the session
\* call, so the index has moved on whether or not the call raises.
IdxAfterFetch(raises) == current_idx + limit

\* A request built by updating self.params in place.
ParamsAfterFetch_NoCopy(ids_str) == UpdatedParams(ids_str)

\* get_next_page updates a copy (`self.params.copy()`): self.params stays.
ParamsAfterFetch(ids_str) == params

\* The page of n raw records the session returns next.
Page(n) == [j \in 1 .. n |-> RawRecord(rawTotal + j)]

\* A __next__ that looks at the last-page flag before the buffer.
NextBranch_FlagFirst ==
    IF is_last_page THEN "stop"
    ELSE IF entities_from_last_page # <<>> THEN "pop"
    ELSE "fetch"

\* A __next__ that takes an empty or failed page for the end of the pages.
NextBranch_StopOnEmptyPage ==
    IF entities_from_last_page # <<>> THEN "pop"
    ELSE IF is_last_page
            \/ (requests # <<>> /\ requests[Len(requests)].returned <= 0)
    THEN "stop"
    ELSE "fetch"

\* A __next__ that fetches the pages ahead of the buffer's entities.
NextBranch_FetchAhead ==
    IF ~is_last_page THEN "fetch"
    ELSE IF entities_from_last_page # <<>> THEN "pop"
    ELSE "stop"

\* A __next__ without the elif: an empty buffer always fetches.
NextBranch_NoStop ==
    IF entities_from_last_page # <<>> THEN "pop" ELSE "fetch"

\* BasePaginator.__next__: the branch its if / elif / else takes.
NextBranch ==
    IF entities_from_last_page # <<>> THEN "pop"
    ELSE IF is_last_page THEN "stop"
    ELSE "fetch"

\* A pop from the left end.
Pop_Left(buf) == [item |-> buf[1], rest |-> SubSeq(buf, 2, Len(buf))]

\* self._entities_from_last_page.pop(): the rightmost element is removed.
Pop(buf) == [item |-> buf[Len(buf)], rest |-> SubSeq(buf, 1, Len(buf) - 1)]

\* __next__, first branch: a buffered entity is popped from the right end.
PagPop ==
    /\ NextBranch = "pop"
    /\ yielded' = Append(yielded, Pop(entities_from_last_page).item)
    /\ entities_from_last_page' = Pop(entities_from_last_page).rest
    /\ plast' = "item"
    /\ ppc' = "idle"
    /\ UNCHANGED <<gvars, pcfg, current_idx, is_last_page, requests, rawTotal,
                   created, pstops>>

\* __next__, second branch: nothing buffered and the last page was fetched.
PagStop ==
    /\ NextBranch = "stop"
    /\ plast' = "stop"
    /\ pstops' = Min(pstops + 1, 2)
    /\ ppc' = "idle"
    /\ UNCHANGED <<gvars, pcfg, current_idx, is_last_page,
                   entities_from_last_page, requests, rawTotal, created,
                   yielded>>

\* __next__, third branch: get_next_page advances the index, decides the
\* last-page flag and calls the session; the session returns a page of n
\* records, each deserialized into the buffer before `return next(self)`, or
\* raises, which leaves __next__ with the buffer as it was.
PagFetch(raises, n) ==
    /\ NextBranch = "fetch"
    /\ current_idx' = IdxAfterFetch(raises)
    /\ params' = ParamsAfterFetch(Join(WindowIds))
    /\ is_last_page' = (IF ReachedEnd(current_idx') THEN TRUE ELSE is_last_page)
    /\ requests' = Append(requests,
                          [params |-> UpdatedParams(Join(WindowIds)),
                           from |-> current_idx,
                           ids |-> WindowIds,
                           returned |-> IF raises THEN -1 ELSE n])
    /\ IF raises
       THEN /\ plast' = "error"
            /\ ppc' = "idle"
            /\ UNCHANGED <<entities_from_last_page, rawTotal, created>>
       ELSE /\ entities_from_last_page' =
                   [j \in 1 .. n |-> deserialize_entity(Page(n)[j])]
            /\ rawTotal' = rawTotal + n
            /\ created' = created + n
            /\ ppc' = "recursed"
            /\ UNCHANGED plast
    /\ UNCHANGED <<gvars, identifiers, limit, identifiers_key, yielded, pstops>>

\* ------------------------------------------------------------------ Init
\* The user parameters a paginator is built with.
ParamChoices ==
    { [k \in {} |-> ""],
      [k \in {"param1"} |-> "val1"],
      [k \in {"ids"} |-> "mine"] }

PagInit ==
    /\ \E n \in 0 .. MaxIds : identifiers = [k \in 1 .. n |-> Ident(k)]
    /\ limit \in 1 .. MaxPageLimit
    /\ params \in ParamChoices
    /\ identifiers_key = "ids"
    /\ current_idx = 0
    /\ is_last_page = FALSE
    /\ entities_from_last_page = <<>>
    /\ requests = <<>>
    /\ rawTotal = 0
    /\ created = 0
    /\ yielded = <<>>
    /\ ppc = "idle"
    /\ plast = "none"
    /\ pstops = 0

\* No paginator beside the generator: one with nothing to fetch, left alone.
PagParked ==
    /\ identifiers = <<>>
    /\ limit = 1
    /\ params = [k \in {} |-> ""]
    /\ identifiers_key = "ids"
    /\ current_idx = 0
    /\ is_last_page = FALSE
    /\ entities_from_last_page = <<>>
    /\ requests = <<>>
    /\ rawTotal = 0
    /\ created = 0
    /\ yielded = <<>>
    /\ ppc = "idle"
    /\ plast = "none"
    /\ pstops = 0

\* No generator beside the paginator: one over an empty source, left alone.
GenParked ==
    /\ multithread = FALSE
    /\ num_executors = 1
    /\ prefetch_limit = 1
    /\ data = <<>>
    /\ outcome = <<>>
    /\ handed = <<>>
    /\ cursor = 0
    /\ lock = NoThread
    /\ pc = [t \in Threads |-> "absent"]
    /\ pos = [t \in Threads |-> 0]
    /\ value = [t \in Threads |-> None]
    /\ queue = <<>>
    /\ completed_threads = 0
    /\ done = FALSE
    /\ cpc = "idle"
    /\ received = <<>>
    /\ lastResult = "none"
    /\ firstEnd = [how |-> "running", at |-> 0, item |-> 0]
    /\ stops = 0
    /\ putLog = <<>>

Init == GenInit /\ PagParked

InitPag == PagInit /\ GenParked

\* ------------------------------------------------------------------ Spec
Next ==
    \/ \E t \in Threads : StartThread(t)
    \/ \E t \in Threads : TSGEnter(t)
    \/ \E t \in Threads : TSGReturn(t)
    \/ \E t \in Threads : Process(t)
    \/ \E t \in Threads : Put(t)
    \/ \E t \in Threads : PutError(t)
    \/ NextCheck
    \/ NextGet

Spec == Init /\ [][Next]_vars

NextPag ==
    \/ PagPop
    \/ PagStop
    \/ \E n \in 0 .. MaxPageLen : PagFetch(FALSE, n)
    \/ PagFetch(TRUE, 0)

SpecPag == InitPag /\ [][NextPag]_vars

\* The paginator under a caller that goes on calling __next__ (a for loop).
SpecPagFair == SpecPag /\ WF_vars(NextPag)

\* ============================================================== claims
\* Helpers of the generator claims.
AllOk == \A i \in DOMAIN outcome : outcome[i] = "ok"

\* The transformed source items, in source order.
Expected == [i \in 1 .. Len(data) |-> Processed(data[i])]

IsPrefix(a, b) == Len(a) <= Len(b) /\ a = SubSeq(b, 1, Len(a))

Range(f) == {f[i] : i \in DOMAIN f}

\* What the consumer had received when its iteration first ended.
ReceivedAtEnd == SubSeq(received, 1, firstEnd.at)

\* C1: with multithread=False and a source whose items all transform
\* successfully, whatever its length, pulling until end-of-sequence is possible
\* (the run is never stuck before it) and yields exactly the transformed
\* source items, each once, in source order.
C1_SingleThreadYieldsAllInOrder ==
    (~multithread /\ AllOk) =>
        /\ IsPrefix(received, Expected)
        /\ firstEnd.how # "error"
        /\ firstEnd.how = "stop" => ReceivedAtEnd = Expected
        /\ firstEnd.how = "running" => ENABLED Next

\* C2: with multithread=True and a source whose items all transform
\* successfully, the set of items received when the consumer first gets
\* end-of-sequence is the set of transformed source items.
C2_MultiThreadYieldsAllAsSet ==
    (multithread /\ AllOk /\ firstEnd.how = "stop") =>
        Range(ReceivedAtEnd) = Range(Expected)

\* C3: the threads that call ThreadSafeGen.__next__ until each sees exhaustion
\* receive, all together, every value the source produces exactly once: no
\* value is ever handed out twice, and none is skipped once all have seen
\* exhaustion.
C3_EachValueHandedOutOnce ==
    /\ \A i \in DOMAIN handed : handed[i] <= 1
    /\ \A i \in DOMAIN handed :
          handed[i] = 1 <=> (i <= cursor /\ outcome[i] # "srcraise")
    /\ (\A t \in Fillers : pc[t] = "done") =>
           \A i \in DOMAIN data : outcome[i] # "srcraise" => handed[i] = 1

C3_Witness ==
    /\ AllOk
    /\ multithread
    /\ num_executors >= 2
    /\ Len(data) >= 2
    /\ \A t \in Fillers : pc[t] = "done"

\* The threads inside next(self.iterable).
Advancing == {t \in Threads : pc[t] = "advancing"}

\* C4: at most one thread is inside the advance of the underlying source, it
\* is the holder of the lock, and while it is inside no other thread that
\* calls __next__ can enter.
C4_MutualExclusion ==
    /\ Cardinality(Advancing) <= 1
    /\ Advancing = IF lock = NoThread THEN {} ELSE {lock}
    /\ \A t \in Threads :
          (pc[t] = "next" /\ Advancing # {}) => ~ENABLED TSGEnter(t)

C4_Witness ==
    \E t, u \in Fillers : pc[t] = "advancing" /\ pc[u] = "next"

\* C8: if _process returns None for some source item, the consumer's iteration
\* does not end normally: it ends with the ValueError of that item.
C8_NoneEndsInError ==
    \A k \in DOMAIN outcome :
        (outcome[k] = "none" /\ firstEnd.how # "running") =>
            /\ firstEnd.how = "error"
            /\ firstEnd.item = k

\* The items put on the queue before the marker of source item k.
RECURSIVE PutBefore(_, _)
PutBefore(log, k) ==
    IF log = <<>> THEN <<>>
    ELSE IF IsValueError(Head(log)) /\ Head(log).at = k THEN <<>>
    ELSE IF IsValueError(Head(log)) THEN PutBefore(Tail(log), k)
    ELSE <<Head(log)>> \o PutBefore(Tail(log), k)

\* C9: if _process raises on source item k, the consumer's iteration ends with
\* that error, after it has received exactly the items enqueued before the
\* failure.
C9_RaiseDeliveredAfterEnqueued ==
    \A k \in DOMAIN outcome :
        (outcome[k] = "raise" /\ firstEnd.how # "running") =>
            /\ firstEnd.how = "error"
            /\ firstEnd.item = k
            /\ ReceivedAtEnd = PutBefore(putLog, k)

\* The case of C10: a source that fits the queue, filled synchronously.
FitsQueue == ~multithread /\ AllOk /\ Len(data) <= prefetch_limit

\* C10: with multithread=False and a source of at most prefetch_limit items,
\* all transformed successfully, the run is never stuck, the consumer receives
\* the items in source order, has them all at the first end-of-sequence, and
\* every pull after that signals end-of-sequence again.
C10_SmallSourceInOrderThenStops ==
    FitsQueue =>
        /\ ENABLED Next
        /\ IsPrefix(received, Expected)
        /\ lastResult # "error"
        /\ stops >= 1 => (received = Expected /\ lastResult = "stop")

C10_Witness ==
    /\ FitsQueue
    /\ Len(data) >= 2
    /\ stops = 2
    /\ received = Expected

\* ---------------------------------------------------- paginator claims
\* The paginator's iteration has reached end-of-sequence.
PagEnded == pstops >= 1

Ceil(n, d) == (n + d - 1) \div d

\* C5: iterating an IdentifierPaginator over N >= 0 identifiers with page
\* limit >= 1 to end-of-sequence issues exactly ceil(N / limit) get_request
\* calls.
C5_FetchCountIsCeil ==
    PagEnded => Len(requests) = Ceil(Len(identifiers), limit)

\* The 1-based identifier positions the k-th request (k = 1, 2, ...) carries.
Sent(k) == {requests[k].from + j : j \in 1 .. Len(requests[k].ids)}

\* C6: the k-th fetch (k = 0, 1, ...) requests exactly the identifiers at
\* positions [k*limit, min((k+1)*limit, N)), in list order and joined by
\* commas; no position is in two requests, and after a full iteration every
\* position is in exactly one.
C6_WindowsPartitionIdentifiers ==
    /\ \A k \in 1 .. Len(requests) :
          LET lo == (k - 1) * limit
              hi == Min(k * limit, Len(identifiers))
          IN /\ requests[k].from = lo
             /\ requests[k].ids = [j \in 1 .. hi - lo |-> identifiers[lo + j]]
             /\ requests[k].params[identifiers_key] = Join(requests[k].ids)
    /\ \A k, m \in 1 .. Len(requests) : k # m => Sent(k) \cap Sent(m) = {}
    /\ PagEnded =>
          \A p \in 1 .. Len(identifiers) :
              Cardinality({k \in 1 .. Len(requests) : p \in Sent(k)}) = 1

C6_Witness ==
    /\ PagEnded
    /\ Len(requests) >= 3
    /\ Len(identifiers) % limit # 0

\* C7: after a full iteration the entities yielded are the entities of the raw
\* records returned across all fetches, one for each record; before that, the
\* records not yet yielded are the ones in the page buffer.
C7_YieldedEqualsReturned ==
    /\ Len(yielded) + Len(entities_from_last_page) = rawTotal
    /\ \A i, j \in 1 .. Len(yielded) : i # j => yielded[i] # yielded[j]
    /\ PagEnded =>
          /\ Len(yielded) = rawTotal
          /\ Range(yielded) =
                {deserialize_entity(RawRecord(j)) : j \in 1 .. rawTotal}

C7_Witness ==
    /\ PagEnded
    /\ Len(yielded) >= 3
    /\ \E k, m \in 1 .. Len(requests) :
          /\ requests[k].returned = 0
          /\ requests[m].returned >= 2

\* C11: exhaustion of the paginator is terminal: once the last page has been
\* fetched and its buffered entities are all returned, a __next__ call only
\* signals end-of-sequence (no fetch, no entity), and the is-last-page flag
\* never goes back to false.
C11_ExhaustedIsTerminal ==
    [][ /\ is_last_page => is_last_page'
        /\ (is_last_page /\ entities_from_last_page = <<>>) =>
              /\ requests' = requests
              /\ yielded' = yielded
              /\ entities_from_last_page' = <<>>
              /\ current_idx' = current_idx
              /\ plast' = "stop" ]_vars

C11_Witness ==
    /\ pstops = 2
    /\ Len(requests) >= 2
    /\ Len(yielded) >= 1
    /\ is_last_page

Reverse(q) == [i \in 1 .. Len(q) |-> q[Len(q) + 1 - i]]

\* The entities of the pages returned by the first k requests, page after
\* page in fetch order, each page in the reverse of the order of its records.
RECURSIVE PagesReversed(_)
PagesReversed(k) ==
    IF k = 0 THEN <<>>
    ELSE LET before == PagesReversed(k - 1)
             n == requests[k].returned
         IN IF n <= 0 THEN before
            ELSE before \o
                 [i \in 1 .. n |->
                     deserialize_entity(RawRecord(Len(before) + n + 1 - i))]

\* C20: entities are returned page by page in fetch order and, within a page,
\* in the reverse of the order in which the raw records were returned: what
\* was yielded, followed by the buffer read from its right end, is the
\* sequence of the reversed pages.
C20_PagesInOrderReversedWithin ==
    yielded \o Reverse(entities_from_last_page) = PagesReversed(Len(requests))

C20_Witness ==
    /\ Len(requests) >= 2
    /\ requests[1].returned = 2
    /\ Len(yielded) >= 3
    /\ yielded[1] = deserialize_entity(RawRecord(2))
    /\ yielded[2] = deserialize_entity(RawRecord(1))

\* ------------------------------------------------ generator claims, continued
\* The threads whose fill_queue has returned.
Terminated == {t \in Fillers : pc[t] \in {"done", "failed"}}

\* C12: with multithread=False and a source of more items than
\* prefetch_limit, the fill that blocks on the full queue resumes: the run is
\* never stuck before every item has been delivered.
C12_SyncFillResumes ==
    (~multithread /\ AllOk /\ Len(data) > prefetch_limit) =>
        (received = Expected \/ ENABLED Next)

\* The places of a log of queue values that hold the None placeholder.
Placeholders(log) == {i \in 1 .. Len(log) : log[i] = None}

\* C13: in multithreaded mode every worker that found the source exhausted
\* has put a None placeholder, the stream is marked done exactly when
\* completed_threads has reached num_executors, and then every worker has
\* terminated; a consumer that has seen end-of-sequence after all workers
\* terminated and the queue drained has marked the stream done.
C13_WorkersSignalCompletion ==
    multithread =>
        /\ Cardinality(Placeholders(putLog)) =
              Cardinality({t \in Fillers : pc[t] = "done"})
        /\ done <=> completed_threads = num_executors
        /\ done => Terminated = Fillers
        /\ (Terminated = Fillers /\ queue = <<>> /\ cpc = "idle"
                /\ lastResult = "stop") => done

\* C14: __next__ decides exhaustion by a probe that does not wait: a call
\* that goes on to queue.get() found the stream not done and the queue not
\* empty, a call that signals end-of-sequence found the stream done or the
\* queue empty, and the probe leaves the queue and the workers as they are.
C14_SnapshotExhaustion ==
    [][ /\ (cpc = "idle" /\ cpc' = "get") =>
              (~done /\ queue # <<>> /\ queue' = queue /\ pc' = pc)
        /\ (cpc = "idle" /\ cpc' = "idle"
              /\ <<lastResult, stops, firstEnd>>' # <<lastResult, stops, firstEnd>>) =>
              /\ done \/ queue = <<>>
              /\ lastResult' = "stop"
              /\ queue' = queue
              /\ pc' = pc ]_vars

\* End-of-sequence was signaled, nothing is queued, a worker is in the middle
\* of an item and source items are not delivered.
C14_Witness ==
    /\ multithread
    /\ AllOk
    /\ firstEnd.how = "stop"
    /\ lastResult = "stop"
    /\ queue = <<>>
    /\ \E t \in Fillers : pc[t] \in {"process", "put"}
    /\ Len(received) < Len(data)

FailedItems ==
    {i \in 1 .. Min(cursor, Len(data)) :
        /\ outcome[i] # "ok"
        /\ outcome[i] # "srcraise" =>
              /\ handed[i] >= 1
              /\ \A t \in Threads : ~(pc[t] = "process" /\ value[t] = i)}

\* The places of a log of queue values that hold an error marker.
Markers(log) == {i \in 1 .. Len(log) : IsValueError(log[i])}

\* One step of a thread inside fill_queue.
FillStep(t) ==
    TSGEnter(t) \/ TSGReturn(t) \/ Process(t) \/ Put(t) \/ PutError(t)

\* C16: every exception of _process, or of the advance of the source, is
\* caught inside fill_queue: the thread it happened on goes on to enqueue the
\* marker and returns; a producer that failed has enqueued exactly one marker
\* and takes no further step; the consumer is raised an error only by
\* dequeuing a marker.
C16_ErrorsSurfaceOnConsumerOnly ==
    /\ Cardinality(FailedItems) =
          Cardinality({t \in Fillers : pc[t] \in {"put_err", "failed"}})
    /\ \A t \in Fillers : pc[t] = "put_err" => IsValueError(value[t])
    /\ Cardinality(Markers(putLog)) =
          Cardinality({t \in Fillers : pc[t] = "failed"})
    /\ \A t \in Fillers : pc[t] = "failed" => ~ENABLED FillStep(t)
    /\ \A i, j \in Markers(putLog) : i # j => putLog[i].at # putLog[j].at
    /\ (lastResult = "error" \/ firstEnd.how = "error") =>
          Cardinality(Markers(queue)) < Cardinality(Markers(putLog))
    /\ firstEnd.how = "error" =>
          \E i \in Markers(putLog) : putLog[i].at = firstEnd.item

C16_Witness ==
    /\ multithread
    /\ \E t \in Fillers : pc[t] = "failed"
    /\ \E t \in Fillers : pc[t] \in {"next", "advancing", "process", "put"}
    /\ lastResult = "error"
    /\ Len(received) >= 1

\* C17: the lock is held only inside one advance of the source, whose end is
\* never waited for; no thread holds it while it runs _process, waits in
\* queue.put or has returned; a thread that asks for the free lock gets it;
\* and once a thread has seen exhaustion every later advance sees it too.
C17_LockScope ==
    /\ \A t \in Threads : lock = t => (pc[t] = "advancing" /\ ENABLED TSGReturn(t))
    /\ \A t \in Threads :
          (pc[t] = "next" /\ lock = NoThread) => ENABLED TSGEnter(t)
    /\ (\E t \in Fillers : pc[t] = "done") =>
          /\ cursor >= Len(data)
          /\ \A u \in Fillers : pc[u] = "advancing" => pos[u] >= Len(data)

C17_Witness ==
    \E t, u \in Fillers :
        /\ pc[t] = "done"
        /\ pc[u] = "advancing"
        /\ lock = u

RECURSIVE SumOf(_)
SumOf(f) == IF f = <<>> THEN 0 ELSE Head(f) + SumOf(Tail(f))

\* The advances of the source that raised instead of producing an element.
RaisedAdvances ==
    Cardinality({i \in 1 .. Min(cursor, Len(data)) : outcome[i] = "srcraise"})

\* C18: ThreadSafeGen does not buffer: the elements the source has given up
\* are the elements __next__ has returned, one advance for each call, and a
\* call returns the very element its advance produced.
C18_NoBuffering ==
    /\ cursor <= Len(data)
    /\ cursor - RaisedAdvances = SumOf(handed)
    /\ \A t \in Threads :
          pc[t] = "process" =>
              (value[t] = data[pos[t] + 1] /\ pos[t] + 1 <= cursor)

C18_Witness ==
    /\ AllOk
    /\ cursor >= 2
    /\ \E t \in Fillers : pc[t] = "process" /\ value[t] = data[2]

\* C19: in multithreaded mode, if the consumer stops pulling between two
\* calls, the workers go on by themselves until all have terminated: they are
\* never all blocked while one of them has not returned.
C19_WorkersFinishWithoutConsumer ==
    (multithread /\ AllOk /\ Constructed /\ cpc = "idle") =>
        \/ Terminated = Fillers
        \/ \E t \in Fillers : ENABLED FillStep(t)

\* --------------------------------------------------- paginator state
\* A step that made a get_request call.
Fetched == Len(requests') > Len(requests)

\* C21: _current_idx never decreases; the last-page flag never goes back to
\* false, changes only on a page fetch, is set by the fetch whose window end
\* reaches or passes the length of the identifier list and by no other fetch,
\* and is set when the iteration has ended.
C21_IndexMonotoneFlagSetOnce ==
    /\ [](PagEnded => is_last_page)
    /\ [][ /\ current_idx' >= current_idx
           /\ is_last_page => is_last_page'
           /\ ~Fetched => is_last_page' = is_last_page
           /\ Fetched =>
                 /\ ~is_last_page
                 /\ is_last_page' <=> current_idx + limit >= Len(identifiers) ]_vars

\* The flag was set by a later fetch than the first, whose window passes the
\* end of the list.
C21_Witness ==
    /\ is_last_page
    /\ ~PagEnded
    /\ Len(requests) >= 2
    /\ current_idx > Len(identifiers)

\* The number of windows an identifier list of n entries is cut into.
WindowCount(n, lim) == IF n = 0 THEN 1 ELSE Ceil(n, lim)

\* C22: the windows requested and the end of the iteration depend on the
\* offset, the limit and the length of the identifier list only: the k-th
\* request asks for the k-th window whatever the earlier responses were, the
\* flag is decided by arithmetic, a page that came back empty, short or not
\* at all for a window that is not the last does not end the iteration (the
\* next step fetches), and an iteration that ended has requested every
\* window.
C22_WindowsIndependentOfResponses ==
    /\ \A k \in DOMAIN requests :
          /\ requests[k].from = (k - 1) * limit
          /\ requests[k].ids =
                SubSeq(identifiers, (k - 1) * limit + 1,
                       Min(k * limit, Len(identifiers)))
    /\ current_idx = Len(requests) * limit
    /\ is_last_page <=>
          (requests # <<>> /\ Len(requests) * limit >= Len(identifiers))
    /\ (/\ requests # <<>>
        /\ requests[Len(requests)].returned < limit
        /\ entities_from_last_page = <<>>
        /\ Len(requests) * limit < Len(identifiers)) =>
          /\ ~ENABLED PagStop
          /\ ENABLED PagFetch(FALSE, 0)
    /\ PagEnded => Len(requests) = WindowCount(Len(identifiers), limit)

\* The iteration ended after a first page that came back empty and a later
\* page that was fetched all the same.
C22_Witness ==
    /\ PagEnded
    /\ Len(requests) >= 2
    /\ requests[1].returned = 0
    /\ requests[2].returned >= 1

\* C23: the entity constructor is invoked for a record when the record is
\* dequeued, so at every point the entities constructed are as many as the
\* entities returned.
C23_EntitiesCreatedAtDequeue == created = Len(yielded)

\* C23, amended: the entity constructor is invoked for every record of a page
\* when the page is fetched: the buffer holds built entities, and at every
\* point the entities constructed are as many as those returned plus those
\* still buffered.
C23_EntitiesCreatedAtFetch ==
    /\ created = Len(yielded) + Len(entities_from_last_page)
    /\ \A j \in DOMAIN entities_from_last_page :
          /\ "entity_class" \in DOMAIN entities_from_last_page[j]
          /\ entities_from_last_page[j].entity_class = "Entity"

\* Entities were built that are still in the buffer, after one was returned.
C23_Witness ==
    /\ Len(yielded) >= 1
    /\ entities_from_last_page # <<>>
    /\ created > Len(yielded)

\* The raw records of the page the latest get_request call returned.
LatestPageIds ==
    IF requests = <<>> \/ requests[Len(requests)].returned < 0
    THEN {}
    ELSE (rawTotal - requests[Len(requests)].returned + 1) .. rawTotal

\* C24: construction makes no request; a request is made only by a step of
\* __next__ that found the buffer empty and the last-page flag unset; from a
\* non-empty buffer the step returns one buffered entity and requests
\* nothing; the buffer never holds more than the page of the latest request.
C24_FetchOnlyOnEmptyBuffer ==
    /\ requests = <<>>
    /\ [](\A j \in DOMAIN entities_from_last_page :
            entities_from_last_page[j].json.id \in LatestPageIds)
    /\ [][ /\ Fetched =>
                 /\ entities_from_last_page = <<>>
                 /\ ~is_last_page
                 /\ Len(requests') = Len(requests) + 1
           /\ entities_from_last_page # <<>> =>
                 /\ ~Fetched
                 /\ Len(yielded') = Len(yielded) + 1
                 /\ Len(entities_from_last_page') =
                       Len(entities_from_last_page) - 1 ]_vars

\* A second page is in the buffer, partly returned.
C24_Witness ==
    /\ Len(requests) >= 2
    /\ requests[Len(requests)].returned = 2
    /\ Len(entities_from_last_page) = 1
    /\ ppc = "idle"

\* The pieces between the commas of a string of characters.
RECURSIVE SplitAtCommas(_, _)
SplitAtCommas(str, piece) ==
    IF str = <<>> THEN <<piece>>
    ELSE IF Head(str) = "," THEN <<piece>> \o SplitAtCommas(Tail(str), <<>>)
    ELSE SplitAtCommas(Tail(str), Append(piece, Head(str)))

\* C25: every request carries the user's parameters and, under
\* identifiers_key, the identifiers of its window joined by commas, which
\* replace a user parameter of the same key; no step changes the stored
\* parameters or the identifier list.
C25_RequestParamsAndFrame ==
    /\ [](\A k \in DOMAIN requests :
            LET sent == requests[k].params IN
            /\ DOMAIN sent = DOMAIN params \cup {identifiers_key}
            /\ \A key \in DOMAIN params \ {identifiers_key} :
                  sent[key] = params[key]
            /\ IF requests[k].ids = <<>>
               THEN sent[identifiers_key] = <<>>
               ELSE SplitAtCommas(sent[identifiers_key], <<>>) = requests[k].ids)
    /\ [][params' = params /\ identifiers' = identifiers]_vars

\* A request was made for a window of two identifiers or more by a paginator
\* whose user parameters use the identifiers key themselves.
C25_Witness ==
    /\ "ids" \in DOMAIN params
    /\ params["ids"] = "mine"
    /\ requests # <<>>
    /\ Len(requests[1].ids) >= 2
    /\ requests[1].params["ids"] # "mine"

\* The requests whose session call raised.
FailedRequests == {k \in DOMAIN requests : requests[k].returned = -1}

\* C27: a get_request that raises leaves the paginator as a successful fetch
\* of an empty page does: the offset moved on by limit, the flag decided, the
\* buffer empty; the next __next__ requests the following window, or signals
\* the end when the failed window was the last; no identifier of a failed
\* window is requested again.
C27_FailedFetchNotRolledBack ==
    /\ [](\A k \in FailedRequests : \A j \in DOMAIN requests :
            j > k =>
                /\ requests[j].from = requests[k].from + (j - k) * limit
                /\ Sent(j) \cap Sent(k) = {})
    /\ []((requests # <<>> /\ Len(requests) \in FailedRequests) =>
            /\ entities_from_last_page = <<>>
            /\ IF current_idx >= Len(identifiers)
               THEN ENABLED PagStop /\ ~ENABLED PagFetch(FALSE, 0)
               ELSE ENABLED PagFetch(FALSE, 0) /\ ~ENABLED PagStop)
    /\ [][ /\ (Fetched /\ requests'[Len(requests')].returned <= 0) =>
                 <<current_idx', is_last_page', entities_from_last_page'>> =
                    <<current_idx + limit,
                      current_idx + limit >= Len(identifiers),
                      <<>>>>
           /\ (Fetched /\ requests'[Len(requests')].returned = -1) =>
                 (plast' = "error" /\ ppc' = "idle") ]_vars

\* A request for a window of identifiers failed and the following window was
\* requested and served.
C27_Witness ==
    \E k \in FailedRequests :
        /\ requests[k].ids # <<>>
        /\ Len(requests) > k
        /\ requests[k + 1].returned >= 1

\* C29: under a caller that goes on calling __next__, the iteration reaches
\* end-of-sequence, whatever the pages hold; the requests made are never more
\* than the windows of the identifier list, and every fetch moves the offset
\* on by exactly limit.
C29_IterationTerminates ==
    /\ <>PagEnded
    /\ [](Len(requests) <= WindowCount(Len(identifiers), limit))
    /\ [][Fetched => current_idx' = current_idx + limit]_vars

\* An iteration of three windows or more ended though every page was empty.
C29_Witness ==
    /\ PagEnded
    /\ Len(requests) >= 3
    /\ \A k \in DOMAIN requests : requests[k].returned = 0

\* ------------------------------------------------ generator, item accounting
\* A value is what became of source item i inside _process: its transform,
\* or the marker of its failure.
ResultOf(x, i) ==
    \/ x = Processed(data[i])
    \/ (IsValueError(x) /\ x.at = i /\ x.cause # "source raised")

\* The threads that hold source item i or what _process made of it.
Holding(i) ==
    {t \in Threads :
        \/ pc[t] = "process" /\ value[t] = data[i]
        \/ pc[t] \in {"put", "put_err"} /\ ResultOf(value[t], i)}

\* The places of a sequence of queue values that hold the transform of item i.
TransformsOf(q, i) == {k \in DOMAIN q : q[k] = Processed(data[i])}

\* C26: in multithreaded mode every source item is handed to at most one
\* worker, which holds it until it has put the one result _process made of
\* it; the queue gives out what was put, once; so every item the consumer
\* receives is the transform of a source item of its own.
C26_NoDuplicatesNoFabrication ==
    multithread =>
        /\ \A i \in DOMAIN data :
              /\ handed[i] <= 1
              /\ Cardinality(Holding(i))
                    + Cardinality({k \in DOMAIN putLog : ResultOf(putLog[k], i)})
                    = handed[i]
              /\ Cardinality(TransformsOf(received, i))
                    + Cardinality(TransformsOf(queue, i))
                    = Cardinality(TransformsOf(putLog, i))
        /\ \A k \in DOMAIN received :
              \E i \in DOMAIN data :
                  /\ received[k] = Processed(data[i])
                  /\ handed[i] = 1
                  /\ outcome[i] = "ok"
        /\ \A k, m \in DOMAIN received : k # m => received[k] # received[m]

\* Two workers have shared a source with a failing item: the consumer got the
\* transform of the other item and the error.
C26_Witness ==
    /\ multithread
    /\ num_executors >= 2
    /\ Terminated = Fillers
    /\ \A t \in Fillers : pos[t] >= 1
    /\ Len(received) >= 1
    /\ \E k \in DOMAIN putLog : IsValueError(putLog[k])
    /\ queue = <<>>

\* C28: the consumer never waits inside __next__: whenever it is at
\* queue.get() the queue is not empty and the get can be taken; it is never
\* in the wait for the workers; a producer's step leaves a waiting get
\* enabled, and the consumer's step after the probe ends the call.
C28_ConsumerNeverBlocks ==
    /\ [](cpc \in {"idle", "get"})
    /\ [](cpc = "get" => (queue # <<>> /\ ENABLED NextGet))
    /\ [][cpc = "get" =>
             \/ cpc' = "get" /\ Len(queue') >= Len(queue)
             \/ cpc' = "idle" /\ lastResult' \in {"item", "error"} ]_vars

\* The consumer is at queue.get() while workers are in the middle of items.
C28_Witness ==
    /\ multithread
    /\ cpc = "get"
    /\ Len(queue) = 1
    /\ \E t \in Fillers : pc[t] = "process"

\* C30: every value queue.put has added is a processed item that is not None
\* or a ValueError marker; no thread is about to put None; the consumer has
\* counted no placeholder and the stream is not marked done.
C30_QueueNeverHoldsNone ==
    /\ \A k \in DOMAIN putLog :
          /\ putLog[k] # None
          /\ putLog[k].kind \in {"item", "ValueError"}
    /\ \A k \in DOMAIN queue : queue[k] # None
    /\ \A t \in Fillers : pc[t] \in {"put", "put_err"} => value[t] # None
    /\ completed_threads = 0
    /\ done = FALSE

\* Every thread has left fill_queue, one on exhaustion and one on a None
\* result of _process, and the consumer has drained the queue.
C30_Witness ==
    /\ Terminated = Fillers
    /\ \E t \in Fillers : pc[t] = "done"
    /\ \E i \in DOMAIN outcome : outcome[i] = "none" /\ handed[i] = 1
    /\ putLog # <<>>
    /\ queue = <<>>
    /\ stops >= 1

====
